---- MODULE Spec2Model ----
(***************************************************************************)
(* Model of the used-phone distributor backend.                            *)
(*                                                                         *)
(*  - programs/distributor/src/lib.rs : the on-ledger program              *)
(*  - backend/src/token_holder.rs     : HeliusClient, the holder directory *)
(*  - backend/src/service.rs          : the actor (mailbox, run_actor,     *)
(*                                      handle_message, distribute_tokens) *)
(*  - backend/src/main.rs             : the HTTP handlers                  *)
(*                                                                         *)
(* Spec         : the actor of service.rs with its producers, the ledger   *)
(*                and the token-account listing as environment.            *)
(* SpecSnapshot : the same actor started on any DistributorState snapshot  *)
(*                the backend can deserialize.                             *)
(* SpecHolder   : HeliusClient alone, its operations applied to listings   *)
(*                and cached counts drawn from bounded sets.               *)
(* SpecDraw     : draw_winners applied to bounded counts and listings.     *)
(* SpecHttp     : webhook_handle and explicit_handle of main.rs.           *)
(* SpecExtract  : extract_vault_balance applied to bounded records.        *)
(* SpecLedger   : deposits and the distribute instruction on the ledger.   *)
(* SpecInitialize : the initialize instruction on any pair of arguments.   *)
(* SpecLock     : two request tasks of main.rs in distribute_tokens at the  *)
(*                same time, around the Mutex of HeliusClient.             *)
(***************************************************************************)
EXTENDS Integers, Sequences, FiniteSets, TLC

VARIABLES
    distributor_state,  \* AppState.distributor_state: snapshot of DistributorState
    mailbox,            \* unbounded_channel of ActorMessage, oldest first
    next_id,            \* number of messages sent so far (ghost numbering of events)
    apc,                \* where run_actor / handle_message is suspended
    cur,                \* the ActorMessage being handled
    vault_balance,      \* distribute_tokens' argument
    winners,            \* distribute_tokens' local `winners`
    latest_hash,        \* distribute_tokens' local `latest_hash`: the round whose call returned it
    holders_number,     \* HeliusClient.holders_number
    db_num,             \* row `num` of table holders for the mint
    measured,           \* ghost: holders_number was written by discovery in this run
    listing,            \* the token accounts the listing API reports, as owners
    ledger_vault,       \* TokenAccount.amount of the vault on the ledger
    pending,            \* transactions sent to the ledger and not yet executed
    round,              \* ghost: what the handling of the latest event did
    inflight,           \* ghost: events whose handling has started and not ended
    refresh_ret,        \* ghost: last call of update_token_holders_number
    draw_ret,           \* ghost: last call of draw_winners
    extract_ret,        \* ghost: a transaction record and what extract_vault_balance made of it
    response,           \* ghost: the last request to an HTTP handler and its response
    token_amounts,      \* TokenAccount.amount of the recipients' associated token accounts
    mint_supply,        \* Mint.supply of the distributed mint
    ledger_ret,         \* ghost: the last distribute instruction and its result
    submit_ret,         \* ghost: how the last call of ActorHandle::handle_request ended
    init_ret,           \* ghost: the arguments of the initialize instruction and its result
    tasks,              \* the request tasks of the HTTP server, each in its distribute_tokens
    lock                \* AppState.helius_client: the task that holds the Mutex

vars == <<distributor_state, mailbox, next_id, apc, cur, vault_balance, winners, latest_hash,
          holders_number, db_num, measured, listing, ledger_vault, pending, round,
          inflight,
          refresh_ret, draw_ret, extract_ret, response, token_amounts, mint_supply,
          ledger_ret, submit_ret, init_ret, tasks, lock>>

----------------------------------------------------------------------------
(* Bounds of the model.                                                    *)

\* page size of the listing API: `let limit = 1000` (token_holder.rs:84, :108),
\* scaled down
limit == 2
\* exclusive end of the page range scanned by discovery: `..2000`
\* (token_holder.rs:86), scaled down
PageEnd == 4
\* most records the listing holds in Spec: one full page
MaxListing == limit
\* most tokens the vault ever holds
MaxVault == 3
\* most trigger events submitted in one behaviour
MaxEvents == 2
\* largest number_of_shares passed to initialize; share_size is the unit of the
\* vault's amounts
MaxShares == 3
\* width in bits of the unsigned integers (u64), scaled down
U64Bits == 4

----------------------------------------------------------------------------
(* anyhow::Result, and a panic of the running task.                        *)

Ok(v) == [tag |-> "ok", val |-> v, why |-> "none"]
Err(e) == [tag |-> "err", val |-> 0, why |-> e]
Panic(e) == [tag |-> "panic", val |-> 0, why |-> e]

Min(a, b) == IF a < b THEN a ELSE b

\* u64::MAX
MaxU64 == 2 ^ U64Bits - 1

----------------------------------------------------------------------------
(* The on-ledger program: programs/distributor/src/lib.rs                  *)

\* the mutant lets a single share pass
InitializeAcceptsOneShare(ss, n) == ss > 0 /\ n > 0 /\ ss * n <= MaxU64
\* initialize: the three require! checks; a DistributorState account exists
\* only if they passed
InitializeAccepts(ss, n) == ss > 0 /\ n > 1 /\ ss * n <= MaxU64

DistributorStates ==
    {[share_size |-> ss, number_of_shares |-> n] :
        <<ss, n>> \in {p \in (0..1) \X (0..MaxShares) :
                          InitializeAccepts(p[1], p[2])}}

\* DistributorState::threshold, and the same product in distribute_tokens: a
\* plain `*` on u64, which wraps where overflow is not checked
Threshold(ds) == (ds.share_size * ds.number_of_shares) % (2 ^ U64Bits)

\* a plain u64 `*` or `-` whose result leaves u64 panics in a build with
\* overflow checks
ThresholdOverflows(ds) == ds.share_size * ds.number_of_shares > MaxU64
DrawSizeOverflows(ds) == ds.number_of_shares - 1 < 0

\* a Pubkey: <<d, i>> is the address derived d times, as an associated token
\* account, from the wallet of owner i of the listing
Pubkey(i) == <<0, i>>

\* get_associated_token_address(owner, mint): an address of its own per owner
AssociatedTokenAddress(key) == <<key[1] + 1, key[2]>>

\* AccountMeta::new_readonly(pubkey, false) and AccountMeta::new(pubkey, false)
AccountMetaReadonly(key) == [pubkey |-> key, is_signer |-> FALSE, is_writable |-> FALSE]
AccountMetaNew(key) == [pubkey |-> key, is_signer |-> FALSE, is_writable |-> TRUE]

----------------------------------------------------------------------------
(* The listing API and HeliusClient: backend/src/token_holder.rs           *)

\* The listing of n token accounts; account i (from 0) is owned by pubkey i + 1.
ListingOf(n) == [i \in 1..n |-> i]

\* getTokenAccounts(mint, page, limit): the records of page `page` (from 1)
TokenAccountsPage(L, page) ==
    SubSeq(L, Min((page - 1) * limit, Len(L)) + 1, Min(page * limit, Len(L)))

\* the response: total is the number of records in this page
GetTokenAccounts(L, page) ==
    [total |-> Len(TokenAccountsPage(L, page)),
     token_accounts |-> TokenAccountsPage(L, page)]

\* first page scanned: self.holders_number / limit + 1
FirstPage(cached) == cached \div limit + 1

\* the mutant counts the last page as one more full page
RECURSIVE ScanCountsLastPage(_, _)
ScanCountsLastPage(L, page) ==
    IF page >= PageEnd
    THEN Err("TooManyPages")
    ELSE IF GetTokenAccounts(L, page).total < limit
         THEN Ok(limit * page + GetTokenAccounts(L, page).total)
         ELSE ScanCountsLastPage(L, page + 1)

\* the loop `for page in first..2000`, from `page` on
RECURSIVE ScanFrom(_, _)
ScanFrom(L, page) ==
    IF page >= PageEnd
    THEN Err("TooManyPages")
    ELSE IF GetTokenAccounts(L, page).total < limit
         THEN Ok(limit * (page - 1) + GetTokenAccounts(L, page).total)
         ELSE ScanFrom(L, page + 1)

\* discover_token_holders_number when every request is answered
DiscoverTokenHoldersNumber(cached, L) == ScanFrom(L, FirstPage(cached))

\* the mutant scans on to twice the end of the range
RECURSIVE ScanRequestsPastEnd(_, _)
ScanRequestsPastEnd(L, page) ==
    IF page >= 2 * PageEnd THEN 0
    ELSE IF GetTokenAccounts(L, page).total < limit THEN 1
         ELSE 1 + ScanRequestsPastEnd(L, page + 1)

\* the number of get_token_accounts requests the loop issues from `page` on when
\* every request is answered: one per page, up to the first short page or the
\* end of the range
RECURSIVE ScanRequests(_, _)
ScanRequests(L, page) ==
    IF page >= PageEnd THEN 0
    ELSE IF GetTokenAccounts(L, page).total < limit THEN 1
         ELSE 1 + ScanRequests(L, page + 1)

\* the numbers of requests one call of discover_token_holders_number can issue:
\* when a request fails, it is the last one issued
DiscoverRequests(cached, L, rpc_fails) ==
    LET total == ScanRequests(L, FirstPage(cached)) IN
    IF rpc_fails /\ total > 0 THEN 1..total ELSE {total}

\* the mutant leaves the indices in the order they were drawn
DrawnOrder(s) == s

\* winner_idx.sort_unstable()
RECURSIVE SortUnstable(_)
SortUnstable(s) ==
    IF s = <<>> THEN <<>>
    ELSE LET m == CHOOSE k \in 1..Len(s) : \A j \in 1..Len(s) : s[k] <= s[j]
         IN <<s[m]>> \o SortUnstable([j \in 1..(Len(s) - 1) |-> IF j < m THEN s[j] ELSE s[j + 1]])

\* the page an index falls on: *idx / limit + 1
PageOfIdx(idx) == idx \div limit + 1

\* the mutant makes a group of every index
RECURSIVE GroupEachIndex(_)
GroupEachIndex(s) ==
    IF s = <<>> THEN <<>>
    ELSE <<[page |-> PageOfIdx(Head(s)), idxs |-> <<Head(s)>>]>> \o GroupEachIndex(Tail(s))

\* group_by(|idx| idx / limit + 1): runs of consecutive indices with the same page
RECURSIVE GroupByPage(_)
GroupByPage(s) ==
    IF s = <<>> THEN <<>>
    ELSE LET rest == GroupByPage(Tail(s))
             page == PageOfIdx(Head(s))
         IN IF rest # <<>> /\ rest[1].page = page
            THEN <<[page |-> page, idxs |-> <<Head(s)>> \o rest[1].idxs]>> \o Tail(rest)
            ELSE <<[page |-> page, idxs |-> <<Head(s)>>]>> \o rest

\* the loop over `distribution`: fetch the group's page, index it by idx % limit.
\* The request number `failing` (0: none) returns an error; an index past the end
\* of token_accounts panics. `fetched` lists the pages requested, in order.
RECURSIVE FetchAndCollect(_, _, _)
FetchAndCollect(L, groups, failing) ==
    IF groups = <<>> THEN [ret |-> Ok(<<>>), fetched |-> <<>>]
    ELSE LET g == groups[1]
             token_accounts == GetTokenAccounts(L, g.page).token_accounts
         IN IF failing = 1
            THEN [ret |-> Err("rpc"), fetched |-> <<g.page>>]
            ELSE IF \E k \in 1..Len(g.idxs) : (g.idxs[k] % limit) + 1 > Len(token_accounts)
            THEN [ret |-> Panic("index out of bounds"), fetched |-> <<g.page>>]
            ELSE LET rest == FetchAndCollect(L, Tail(groups), failing - 1)
                 IN [ret |-> IF rest.ret.tag # "ok" THEN rest.ret
                             ELSE Ok([k \in 1..Len(g.idxs) |->
                                         token_accounts[(g.idxs[k] % limit) + 1]]
                                     \o rest.ret.val),
                     fetched |-> <<g.page>> \o rest.fetched]

\* the loop when every request is answered
CollectWinners(L, groups) == FetchAndCollect(L, groups, 0).ret

\* what Uniform::from(0..holders_number).sample_iter().take(n) can yield
Samples(h, n) == [1..n -> 0..(h - 1)]

\* the mutant keeps one of the indices drawn more than once
DrawWinnersDeduplicated(h, L, drawn) ==
    LET set == {drawn[k] : k \in 1..Len(drawn)}
        idxs == CHOOSE f \in [1..Cardinality(set) -> set] :
                    \A i, j \in 1..Cardinality(set) : i < j => f[i] < f[j]
    IN IF h = 0 THEN Panic("Uniform::new called with low >= high")
       ELSE CollectWinners(L, GroupByPage(idxs))

\* draw_winners(n) for the drawn indices `drawn`, every request answered.
\* Uniform::from(0..0) panics: the range is empty.
DrawWinners(h, L, drawn) ==
    IF h = 0 THEN Panic("Uniform::new called with low >= high")
    ELSE CollectWinners(L, GroupByPage(SortUnstable(drawn)))

\* the outcomes of draw_winners(n): every sample, and a failed request
DrawOutcomes(h, L, n) ==
    IF h = 0 THEN {DrawWinners(h, L, <<>>)}
    ELSE {DrawWinners(h, L, d) : d \in Samples(h, n)} \cup {Err("rpc")}

\* the calls of draw_winners(n) one by one: the indices drawn, the pages
\* requested, the result, for every sample and every request that can fail
DrawTraces(h, L, n) ==
    IF h = 0
    THEN {[drawn |-> <<>>, fetched |-> <<>>, ret |-> DrawWinners(h, L, <<>>)]}
    ELSE {LET t == FetchAndCollect(L, GroupByPage(SortUnstable(d)), failing)
          IN [drawn |-> d, fetched |-> t.fetched, ret |-> t.ret] :
              d \in Samples(h, n), failing \in 0..n}


----------------------------------------------------------------------------
(* Balance extraction: backend/src/service.rs, extract_vault_balance       *)

Digits == <<"0", "1", "2", "3", "4", "5", "6", "7", "8", "9">>
DigitValue(c) == (CHOOSE k \in 1..10 : Digits[k] = c) - 1
IsDigit(c) == \E k \in 1..10 : Digits[k] = c

\* amount.parse::<u64>() on a string given as its characters
RECURSIVE ParseDigits(_, _)
ParseDigits(chars, acc) ==
    IF chars = <<>> THEN acc
    ELSE ParseDigits(Tail(chars), acc * 10 + DigitValue(Head(chars)))

\* u64::from_str: an optional "+", then at least one digit, no value above u64::MAX
ParseU64(chars) ==
    LET digits == IF chars # <<>> /\ chars[1] = "+" THEN Tail(chars) ELSE chars IN
    IF digits = <<>> \/ \E k \in 1..Len(digits) : ~IsDigit(digits[k])
    THEN Err("ParseIntError")
    ELSE IF ParseDigits(digits, 0) > MaxU64
         THEN Err("ParseIntError")
         ELSE Ok(ParseDigits(digits, 0))

\* the decimal string of a number, as the indexer writes amounts
RECURSIVE AmountString(_)
AmountString(n) == IF n < 10 THEN <<Digits[n + 1]>>
                   ELSE AmountString(n \div 10) \o <<Digits[(n % 10) + 1]>>

\* the vault's address, and a string Pubkey::from_str rejects
VaultKey == "vault"
NotAKey == "?"

\* the mutant counts positions from 1
VaultPositionFromOne(account_keys) ==
    IF \E k \in 1..Len(account_keys) : account_keys[k] = VaultKey
    THEN CHOOSE k \in 1..Len(account_keys) :
              /\ account_keys[k] = VaultKey
              /\ \A j \in 1..(k - 1) : account_keys[j] # VaultKey
    ELSE -1

\* position(|key| key == vault), from 0; -1 for None
VaultPosition(account_keys) ==
    IF \E k \in 1..Len(account_keys) : account_keys[k] = VaultKey
    THEN (CHOOSE k \in 1..Len(account_keys) :
              /\ account_keys[k] = VaultKey
              /\ \A j \in 1..(k - 1) : account_keys[j] # VaultKey) - 1
    ELSE -1

\* find_map: the amount of the first entry whose account_index is `pos`
RECURSIVE FindAmount(_, _)
FindAmount(balances, pos) ==
    IF balances = <<>> THEN <<"none">>
    ELSE IF Head(balances).account_index = pos
         THEN <<"some", Head(balances).amount>>
         ELSE FindAmount(Tail(balances), pos)

extract_vault_balance(tx) ==
    IF tx.encoding # "json_raw"
    THEN Err("Failed to find account keys in transaction")
    ELSE IF \E k \in 1..Len(tx.account_keys) : tx.account_keys[k] = NotAKey
    THEN Err("ParsePubkeyError")
    ELSE IF VaultPosition(tx.account_keys) < 0
    THEN Err("Vault not found in transaction")
    ELSE IF ~tx.has_meta
    THEN Err("Transaction doesn't have meta field")
    ELSE IF ~tx.has_post_token_balances
    THEN Err("Transaction doesn't have post_token_balances field")
    ELSE LET found == FindAmount(tx.post_token_balances, VaultPosition(tx.account_keys))
         IN IF found[1] = "none"
            THEN Err("Failed to find vault balance")
            ELSE IF ParseU64(found[2]).tag # "ok"
                 THEN Err("Failed to parse vault balance")
                 ELSE ParseU64(found[2])

\* a confirmed transaction that leaves `amount` in the vault
VaultRecord(amount) ==
    [encoding |-> "json_raw", account_keys |-> <<"payer", VaultKey>>,
     has_meta |-> TRUE, has_post_token_balances |-> TRUE,
     post_token_balances |-> <<[account_index |-> 1, amount |-> AmountString(amount)]>>]

\* a confirmed transaction that does not mention the vault
OtherRecord ==
    [encoding |-> "json_raw", account_keys |-> <<"payer", "other">>,
     has_meta |-> TRUE, has_post_token_balances |-> TRUE,
     post_token_balances |-> <<[account_index |-> 1, amount |-> AmountString(MaxVault)]>>]

\* the records handed to extract_vault_balance: the lists of account keys, the
\* amount strings and the post-execution token balances they are made of
KeyLists ==
    {<<"payer", VaultKey>>, <<VaultKey, "payer">>, <<"payer", "other">>,
     <<"payer", NotAKey, VaultKey>>, <<"payer", VaultKey, VaultKey>>}

Amounts ==
    {AmountString(0), AmountString(MaxVault), AmountString(MaxU64),
     AmountString(MaxU64 + 1), <<"+", "1">>, <<"-", "1">>, <<>>}

TokenBalances ==
    UNION {[1..n -> [account_index : 0..2, amount : Amounts]] : n \in 0..2}

Records ==
    [encoding : {"json_raw", "binary"}, account_keys : KeyLists,
     has_meta : BOOLEAN, has_post_token_balances : BOOLEAN,
     post_token_balances : TokenBalances]

----------------------------------------------------------------------------
(* The actor: backend/src/service.rs                                       *)

\* ActorMessage(Option<EncodedConfirmedTransactionWithStatusMeta>)
NoTx == [some |-> FALSE, tx |-> OtherRecord]
SomeTx(r) == [some |-> TRUE, tx |-> r]

\* the payloads producers send: an explicit trigger, and an observed record
Payloads == {NoTx, SomeTx(OtherRecord)}

NoMessage == [id |-> 0, payload |-> NoTx]

\* ghost record of the handling of message m: the calls made so far
NewRound(m, status) ==
    [id |-> m.id, payload |-> m.payload, status |-> status, reads |-> 0,
     tested |-> <<>>, refreshes |-> 0, upsert |-> "none", draws |-> 0, sends |-> 0,
     calls |-> <<>>]

\* ghost: the remote step `step` of distribute_tokens was called and returned Ok
\* (ok) or did not
Called(h, step, ok) == [h EXCEPT !.calls = Append(@, [step |-> step, ok |-> ok])]

\* no blockhash: the local does not exist before get_latest_blockhash returned
NoHash == 0

\* the remote steps of a round, in the order of distribute_tokens' statements
RoundSteps == <<"update_token_holders_number", "draw_winners", "get_latest_blockhash",
                "send_transaction">>

\* the mutant puts the token account before its authority
RECURSIVE RemainingAccountsAtaFirst(_)
RemainingAccountsAtaFirst(ws) ==
    IF ws = <<>> THEN <<>>
    ELSE <<AccountMetaNew(AssociatedTokenAddress(Pubkey(Head(ws)))),
           AccountMetaReadonly(Pubkey(Head(ws)))>> \o RemainingAccountsAtaFirst(Tail(ws))

\* remaining_accounts: winner and its associated token account, per winner
RECURSIVE RemainingAccounts(_)
RemainingAccounts(ws) ==
    IF ws = <<>> THEN <<>>
    ELSE <<AccountMetaReadonly(Pubkey(Head(ws))),
           AccountMetaNew(AssociatedTokenAddress(Pubkey(Head(ws))))>> \o RemainingAccounts(Tail(ws))

\* the instructions of the transaction distribute_tokens builds, in order
\* (service.rs:108-127): the compute unit limit, the memo, distribute
Instructions == <<"set_compute_unit_limit", "build_memo", "distribute">>

\* the signed transaction of the round of event `event`; `winners` is a ghost
\* field, the winner set the accounts were derived from; recent_blockhash is the
\* hash it was signed with
DistributeTransaction(event, ws, hash) ==
    [event |-> event, instructions |-> Instructions, winners |-> ws,
     remaining_accounts |-> RemainingAccounts(ws), recent_blockhash |-> hash]

\* ghost records of the last call of update_token_holders_number and draw_winners:
\* the cached count (and whether discovery wrote it) and the number of listed
\* records at the call, and the result; `refreshed` of a draw: the call before it
\* was a refresh that returned Ok, and the listing is as that refresh saw it
NoRefresh == [called |-> FALSE, cached |-> 0, listed |-> 0, requests |-> 0, ret |-> Ok(0)]
NoDraw == [called |-> FALSE, holders |-> 0, measured |-> FALSE, refreshed |-> FALSE,
           listed |-> 0, n |-> 0, drawn |-> <<>>, fetched |-> <<>>, ret |-> Ok(<<>>)]

\* ghost records before any call: of extract_vault_balance, of an HTTP handler, of
\* the distribute instruction, of the initialize instruction
NoExtract == [called |-> FALSE, tx |-> OtherRecord, ret |-> Ok(0)]
NoResponse == [handler |-> "none", batch |-> <<>>, status |-> 0]
NoDistribute == [called |-> FALSE, err |-> "none", accounts |-> <<>>]
NoInitialize == [called |-> FALSE, share_size |-> 0, number_of_shares |-> 0, err |-> "none"]

\* the request tasks that run at the same time, and no task: the Mutex is free
Tasks == {1, 2}
NoTask == 0
\* a task outside distribute_tokens; `wrote` is a ghost, the count the task's
\* refresh left in HeliusClient
IdleTask == [pc |-> "idle", wrote |-> 0, winners |-> <<>>]
NoTasks == [t \in Tasks |-> IdleTask]

\* the owners whose associated token accounts SpecLedger follows, their amounts
\* before any distribution, and the supply of the mint at the start
LedgerOwners == {1, 2}
NoAmounts == [i \in LedgerOwners |-> 0]
InitialSupply == MaxVault

TypeOK ==
    /\ distributor_state \in DistributorStates
    /\ next_id \in 0..MaxEvents
    /\ Len(mailbox) <= MaxEvents
    /\ apc \in {"recv", "get_account_data", "update_token_holders_number", "draw_winners",
                "get_latest_blockhash", "send_transaction", "dead"}
    /\ ledger_vault \in 0..MaxVault
    /\ Len(listing) <= MaxListing
    /\ round.id \in 0..next_id

Init ==
    /\ distributor_state \in DistributorStates
    /\ mailbox = <<>>
    /\ next_id = 0
    /\ apc = "recv"
    /\ cur = NoMessage
    /\ vault_balance = 0
    /\ winners = <<>>
    /\ latest_hash = NoHash
    /\ holders_number = 0
    /\ db_num = 0
    /\ measured = FALSE
    /\ listing = <<>>
    /\ ledger_vault = 0
    /\ pending = <<>>
    /\ round = NewRound(NoMessage, "none")
    /\ inflight = {}
    /\ refresh_ret = NoRefresh
    /\ draw_ret = NoDraw
    /\ extract_ret = NoExtract
    /\ response = NoResponse
    /\ token_amounts = NoAmounts
    /\ mint_supply = InitialSupply
    /\ ledger_ret = NoDistribute
    /\ submit_ret = "none"
    /\ init_ret = NoInitialize
    /\ tasks = NoTasks
    /\ lock = NoTask

actorVars == <<apc, cur, vault_balance, winners, latest_hash, inflight>>
holderVars == <<holders_number, db_num, measured>>
ghostRets == <<refresh_ret, draw_ret>>
\* what the actor neither reads nor writes: the records handed to
\* extract_vault_balance, the HTTP handlers' responses, and the token accounts and
\* the mint on the ledger (Spec follows the vault only)
ledgerVars == <<extract_ret, response, token_amounts, mint_supply, ledger_ret, init_ret>>
taskVars == <<tasks, lock>>
otherVars == <<ledgerVars, submit_ret, taskVars>>

\* the mutant is a channel whose send is taken only by a receiver waiting in recv
SendNeedsWaitingReceiver(state) == state = "recv"
\* UnboundedSender::send: Ok as long as the receiver exists, whatever the channel
\* holds; Err(SendError) once the receiver is dropped, which is when the task of
\* run_actor has ended
SendSucceeds(state) == state # "dead"

\* ActorHandle::handle_request: sender.send(ActorMessage(tx)).expect("Actor is dead").
\* send is not async and never waits. Once the receiver is dropped send fails,
\* nothing is enqueued and expect panics in the caller.
HandleRequest ==
    /\ next_id < MaxEvents
    /\ next_id' = next_id + 1
    /\ IF SendSucceeds(apc)
       THEN /\ \E payload \in Payloads :
                  mailbox' = Append(mailbox, [id |-> next_id + 1, payload |-> payload])
            /\ submit_ret' = "ok"
       ELSE /\ mailbox' = mailbox
            /\ submit_ret' = "panic"
    /\ UNCHANGED <<distributor_state, actorVars, holderVars, listing, ledger_vault,
                   pending, round, ghostRets, ledgerVars, taskVars>>

\* the mutant takes the next message while a handling is still suspended
LoopSpawnsHandling == TRUE
\* run_actor awaits handle_message before it calls recv again
LoopAwaitsHandling == apc = "recv"

\* the mutant receives the newest message
NewestMessage(q) == Len(q)
\* recv yields the oldest message of the channel
OldestMessage(q) == 1

\* the mutant handles the event once more when its handling failed
RetryOnError(status, h) ==
    IF status = "err" /\ h.reads < 2
    THEN /\ apc' = "get_account_data"
         /\ round' = h
         /\ UNCHANGED <<cur, vault_balance, winners, latest_hash, inflight>>
    ELSE /\ apc' = "recv"
         /\ cur' = NoMessage
         /\ vault_balance' = 0
         /\ winners' = <<>>
         /\ latest_hash' = NoHash
         /\ inflight' = inflight \ {cur.id}
         /\ round' = [h EXCEPT !.status = status]

\* how the handling of the current event ends: back in recv().await
EndHandling(status, h) ==
    /\ apc' = "recv"
    /\ cur' = NoMessage
    /\ vault_balance' = 0
    /\ winners' = <<>>
    /\ latest_hash' = NoHash
    /\ inflight' = inflight \ {cur.id}
    /\ round' = [h EXCEPT !.status = status]

\* run_actor: actor.receiver.recv().await yields a message
Recv ==
    /\ LoopAwaitsHandling
    /\ apc # "dead"
    /\ mailbox # <<>>
    /\ LET k == OldestMessage(mailbox) IN
         /\ cur' = mailbox[k]
         /\ mailbox' = [j \in 1..(Len(mailbox) - 1) |->
                           IF j < k THEN mailbox[j] ELSE mailbox[j + 1]]
         /\ inflight' = inflight \cup {mailbox[k].id}
         /\ round' = NewRound(mailbox[k], "running")
    /\ apc' = "get_account_data"
    /\ UNCHANGED <<distributor_state, next_id, vault_balance, winners, latest_hash, holderVars,
                   listing, ledger_vault, pending, ghostRets, otherVars>>

\* the mutant lets a balance equal to the threshold pass as below it
ThresholdExceeded(balance, ds) == balance > Threshold(ds)
\* distribute_tokens: vault_balance >= threshold
ThresholdReached(balance, ds) == balance >= Threshold(ds)

\* handle_message up to the lock: get_account_data, unpack, the threshold test
GetAccountData ==
    /\ apc = "get_account_data"
    /\ UNCHANGED <<distributor_state, mailbox, next_id, holderVars, listing,
                   ledger_vault, pending, ghostRets, otherVars>>
    /\ LET h1 == [round EXCEPT !.reads = @ + 1] IN
       \/ EndHandling("err", h1)                       \* Failed to fetch vault balance
       \/ /\ ThresholdOverflows(distributor_state)    \* attempt to multiply with overflow
          /\ apc' = "dead"
          /\ round' = [h1 EXCEPT !.status = "panic"]
          /\ UNCHANGED <<cur, vault_balance, winners, latest_hash, inflight>>
       \/ LET h2 == [h1 EXCEPT !.tested = Append(@, ledger_vault)] IN
            IF ThresholdReached(ledger_vault, distributor_state)
            THEN /\ apc' = "update_token_holders_number"
                 /\ vault_balance' = ledger_vault
                 /\ round' = h2
                 /\ UNCHANGED <<cur, winners, latest_hash, inflight>>
            ELSE EndHandling("ok", h2)                 \* Threshold isn't reached


\* the mutant keeps the records counted so far in the cache when the scan fails
UpdateCountsWhileScanning(cached, row, L, rpc_fails, db_fails) ==
    LET found == IF rpc_fails THEN Err("rpc") ELSE DiscoverTokenHoldersNumber(cached, L) IN
    IF found.tag # "ok"
    THEN [ret |-> found,
          holders_number |-> IF rpc_fails THEN limit * (FirstPage(cached) - 1)
                             ELSE limit * (PageEnd - 1),
          db_num |-> row, upsert |-> "none"]
    ELSE [ret |-> Ok(found.val), holders_number |-> found.val,
          db_num |-> IF db_fails THEN row ELSE found.val,
          upsert |-> IF db_fails THEN "failed" ELSE "done"]

\* the mutant returns the error of the upsert
UpdateFailsOnUpsert(cached, row, L, rpc_fails, db_fails) ==
    LET found == IF rpc_fails THEN Err("rpc") ELSE DiscoverTokenHoldersNumber(cached, L) IN
    IF found.tag # "ok"
    THEN [ret |-> found, holders_number |-> cached, db_num |-> row, upsert |-> "none"]
    ELSE [ret |-> IF db_fails THEN Err("sqlx") ELSE Ok(found.val),
          holders_number |-> found.val,
          db_num |-> IF db_fails THEN row ELSE found.val,
          upsert |-> IF db_fails THEN "failed" ELSE "done"]

\* what update_token_holders_number leaves behind, for a request failure `rpc_fails`
\* and an upsert failure `db_fails`: the returned result, the cached count, the row,
\* and what became of the upsert
UpdateTokenHoldersNumber(cached, row, L, rpc_fails, db_fails) ==
    LET found == IF rpc_fails THEN Err("rpc") ELSE DiscoverTokenHoldersNumber(cached, L) IN
    IF found.tag # "ok"
    THEN [ret |-> found, holders_number |-> cached, db_num |-> row, upsert |-> "none"]
    ELSE [ret |-> Ok(found.val), holders_number |-> found.val,
          db_num |-> IF db_fails THEN row ELSE found.val,
          upsert |-> IF db_fails THEN "failed" ELSE "done"]

\* distribute_tokens: helius_client.lock(), update_token_holders_number().
\* The pages of one scan are answered from one state of the listing.
UpdateHolders ==
    /\ apc = "update_token_holders_number"
    /\ UNCHANGED <<distributor_state, mailbox, next_id, listing, ledger_vault, pending,
                   ghostRets, otherVars>>
    /\ \E rpc_fails \in BOOLEAN, db_fails \in BOOLEAN :
         LET out == UpdateTokenHoldersNumber(holders_number, db_num, listing,
                                             rpc_fails, db_fails)
             h1 == Called([round EXCEPT !.refreshes = @ + 1, !.upsert = out.upsert],
                          "update_token_holders_number", out.ret.tag = "ok")
         IN /\ holders_number' = out.holders_number
            /\ db_num' = out.db_num
            /\ measured' = (measured \/ out.ret.tag = "ok")
            /\ IF out.ret.tag = "ok"
               THEN /\ apc' = "draw_winners"
                    /\ round' = h1
                    /\ UNCHANGED <<cur, vault_balance, winners, latest_hash, inflight>>
               ELSE EndHandling("err", h1)   \* Failed to update token holders number

\* draw_winners(number_of_shares - 1). For number_of_shares = 0 the subtraction
\* panics where overflow is checked; where it wraps, the draw collects u64::MAX
\* samples and the task ends when memory runs out.
DrawWinnersOfRound(ds, h, L) ==
    IF DrawSizeOverflows(ds)
    THEN {Panic("attempt to subtract with overflow"), Panic("memory allocation failed")}
    ELSE DrawOutcomes(h, L, ds.number_of_shares - 1)

\* distribute_tokens: draw_winners(number_of_shares - 1), drop(helius_client).
\* A panic unwinds run_actor: the task ends and the receiver is dropped.
DrawStep ==
    /\ apc = "draw_winners"
    /\ UNCHANGED <<distributor_state, mailbox, next_id, holderVars, listing,
                   ledger_vault, pending, ghostRets, otherVars>>
    /\ \E out \in DrawWinnersOfRound(distributor_state, holders_number, listing) :
         LET h1 == Called([round EXCEPT !.draws = @ + 1], "draw_winners",
                          out.tag = "ok") IN
         CASE out.tag = "ok" ->
                /\ apc' = "get_latest_blockhash"
                /\ winners' = out.val
                /\ round' = h1
                /\ UNCHANGED <<cur, vault_balance, latest_hash, inflight>>
           [] out.tag = "err" -> EndHandling("err", h1)    \* Failed to draw winners
           [] out.tag = "panic" ->
                /\ apc' = "dead"
                /\ round' = [h1 EXCEPT !.status = "panic"]
                /\ UNCHANGED <<cur, vault_balance, winners, latest_hash, inflight>>

\* the mutant signs and sends although the fetch of the blockhash failed
BlockhashErrorIgnored ==
    /\ apc = "get_latest_blockhash"
    /\ UNCHANGED <<distributor_state, mailbox, next_id, holderVars, listing,
                   ledger_vault, pending, ghostRets, otherVars>>
    /\ \E ok \in BOOLEAN :
          /\ apc' = "send_transaction"
          /\ latest_hash' = IF ok THEN cur.id ELSE NoHash
          /\ round' = Called(round, "get_latest_blockhash", ok)
          /\ UNCHANGED <<cur, vault_balance, winners, inflight>>

\* distribute_tokens: get_latest_blockhash, then build and sign the transaction.
\* The hash is the one this call returns: there is no other source of a hash.
GetLatestBlockhash ==
    /\ apc = "get_latest_blockhash"
    /\ UNCHANGED <<distributor_state, mailbox, next_id, holderVars, listing,
                   ledger_vault, pending, ghostRets, otherVars>>
    /\ \/ EndHandling("err", Called(round, "get_latest_blockhash", FALSE))
                                                       \* Failed to get latest blockhash
       \/ /\ apc' = "send_transaction"
          /\ latest_hash' = cur.id
          /\ round' = Called(round, "get_latest_blockhash", TRUE)
          /\ UNCHANGED <<cur, vault_balance, winners, inflight>>

\* distribute_tokens: send_transaction returns once the node has taken the
\* transaction; the ledger executes it later
SendTransaction ==
    /\ apc = "send_transaction"
    /\ UNCHANGED <<distributor_state, mailbox, next_id, holderVars, listing,
                   ledger_vault, ghostRets, otherVars>>
    /\ \/ /\ EndHandling("err", Called(round, "send_transaction", FALSE))
          /\ UNCHANGED pending                          \* Failed to send transaction
       \/ /\ pending' = Append(pending, DistributeTransaction(cur.id, winners, latest_hash))
          /\ EndHandling("ok", Called([round EXCEPT !.sends = @ + 1],
                                      "send_transaction", TRUE))

----------------------------------------------------------------------------
(* The environment: the ledger and the holders of the marker token         *)

\* the pairs (authority, token account) of remaining_accounts: iter().tuples()
Tuples(accounts) == [k \in 1..(Len(accounts) \div 2) |-> <<accounts[2 * k - 1], accounts[2 * k]>>]

\* distribute of the on-ledger program: the error it rejects the transaction with,
\* or "ok"
DistributeCheck(vault_amount, ds, accounts) ==
    IF vault_amount < Threshold(ds) THEN "ThresholdNotMet"
    ELSE IF Len(accounts) # (ds.number_of_shares - 1) * 2 THEN "MissingRemainingAccounts"
    ELSE IF \E k \in 1..Len(Tuples(accounts)) :
                Tuples(accounts)[k][2].pubkey #
                    AssociatedTokenAddress(Tuples(accounts)[k][1].pubkey)
         THEN "InvalidAssociatedTokenAccount"
         ELSE "ok"

\* the vault after distribute: share_size to each pair, share_size burnt
VaultAfterDistribute(vault_amount, ds, accounts) ==
    IF DistributeCheck(vault_amount, ds, accounts) = "ok"
    THEN vault_amount - ds.share_size * Len(Tuples(accounts)) - ds.share_size
    ELSE vault_amount

\* the ledger executes the oldest transaction sent to it
LedgerExecute ==
    /\ pending # <<>>
    /\ ledger_vault' = VaultAfterDistribute(ledger_vault, distributor_state,
                                            Head(pending).remaining_accounts)
    /\ pending' = Tail(pending)
    /\ UNCHANGED <<distributor_state, mailbox, next_id, actorVars, holderVars, listing,
                   round, ghostRets, otherVars>>

\* deposit of the on-ledger program: transfer_checked into the vault
Deposit ==
    /\ \E amount \in 1..(MaxVault - ledger_vault) : ledger_vault' = ledger_vault + amount
    /\ UNCHANGED <<distributor_state, mailbox, next_id, actorVars, holderVars, listing,
                   pending, round, ghostRets, otherVars>>

\* an account of the marker token is opened
HolderJoins ==
    /\ Len(listing) < MaxListing
    /\ listing' = ListingOf(Len(listing) + 1)
    /\ UNCHANGED <<distributor_state, mailbox, next_id, actorVars, holderVars,
                   ledger_vault, pending, round, ghostRets, otherVars>>

\* accounts of the marker token are closed
HoldersExit ==
    /\ \E n \in 0..(Len(listing) - 1) : listing' = ListingOf(n)
    /\ UNCHANGED <<distributor_state, mailbox, next_id, actorVars, holderVars,
                   ledger_vault, pending, round, ghostRets, otherVars>>

Next ==
    \/ HandleRequest
    \/ Recv
    \/ GetAccountData
    \/ UpdateHolders
    \/ DrawStep
    \/ GetLatestBlockhash
    \/ SendTransaction
    \/ LedgerExecute
    \/ Deposit
    \/ HolderJoins
    \/ HoldersExit

Spec == Init /\ [][Next]_vars

\* The actor started on any DistributorState account there can be at the configured
\* address, also one whose fields initialize would have rejected: the backend
\* takes the account as it deserializes (main.rs:211-214).
SnapshotStates ==
    [share_size : {1, 2 ^ (U64Bits - 1)}, number_of_shares : 0..MaxShares]

InitSnapshot ==
    /\ distributor_state \in SnapshotStates
    /\ mailbox = <<>>
    /\ next_id = 0
    /\ apc = "recv"
    /\ cur = NoMessage
    /\ vault_balance = 0
    /\ winners = <<>>
    /\ latest_hash = NoHash
    /\ holders_number = 0
    /\ db_num = 0
    /\ measured = FALSE
    /\ listing = <<>>
    /\ ledger_vault = 0
    /\ pending = <<>>
    /\ round = NewRound(NoMessage, "none")
    /\ inflight = {}
    /\ refresh_ret = NoRefresh
    /\ draw_ret = NoDraw
    /\ extract_ret = NoExtract
    /\ response = NoResponse
    /\ token_amounts = NoAmounts
    /\ mint_supply = InitialSupply
    /\ ledger_ret = NoDistribute
    /\ submit_ret = "none"
    /\ init_ret = NoInitialize
    /\ tasks = NoTasks
    /\ lock = NoTask

SpecSnapshot == InitSnapshot /\ [][Next]_vars


----------------------------------------------------------------------------
(* Claims about the actor, checked under Spec                              *)

\* C1: at every moment at most one event is between the start of its handling
\* and its completion, also while a remote call of the round is suspended: the
\* only event in flight is the one the actor holds.
C1_RoundsNeverOverlap ==
    /\ Cardinality(inflight) <= 1
    /\ inflight \subseteq {cur.id}
    /\ apc \notin {"recv", "dead"} => inflight = {cur.id}

\* a round is suspended in its submission while a later event waits in the mailbox
C1_Witness ==
    /\ apc = "send_transaction"
    /\ mailbox # <<>>
    /\ inflight = {cur.id}

\* C2: events are handled in arrival order: whenever the handling of an event
\* starts, it is the oldest waiting event, the one sent right after the event
\* handled before it, and that earlier handling has completed.
C2_FifoOrder ==
    [][round'.id # round.id =>
          /\ round'.id = round.id + 1
          /\ mailbox[1].id = round'.id
          /\ round.status # "running"
          /\ inflight = {}]_vars

\* the second event is being handled after the first one's round sent a transaction
C2_Witness ==
    /\ round.id = 2
    /\ round.status = "running"
    /\ pending # <<>>
    /\ pending[1].event = 1

\* C3: an event whose balance is below share_size * number_of_shares runs no
\* round and returns Ok; an event whose balance reaches it runs exactly one round.
C3_ThresholdCorrectness ==
    /\ Len(round.tested) <= 1
    /\ round.tested = <<>> => round.refreshes = 0 /\ round.draws = 0 /\ round.sends = 0
    /\ round.tested # <<>> =>
          IF round.tested[1] < distributor_state.share_size * distributor_state.number_of_shares
          THEN /\ round.refreshes = 0 /\ round.draws = 0 /\ round.sends = 0
               /\ round.status = "ok"
          ELSE /\ round.refreshes = (IF apc = "update_token_holders_number" THEN 0 ELSE 1)
               /\ round.draws <= 1 /\ round.sends <= 1

\* an event that found exactly the threshold in the vault has run one whole round
C3_Witness ==
    /\ round.status = "ok"
    /\ round.tested = <<distributor_state.share_size * distributor_state.number_of_shares>>
    /\ round.refreshes = 1 /\ round.draws = 1 /\ round.sends = 1

\* C4: for an Observed event the balance tested is the one extracted from the
\* supplied record, and if the record does not yield the vault's balance the
\* event is a no-op: no ledger read, no refresh, no draw, no submission.
C4_ObservedUsesEvidence ==
    round.payload.some =>
        IF extract_vault_balance(round.payload.tx).tag = "ok"
        THEN round.tested \in {<<>>, <<extract_vault_balance(round.payload.tx).val>>}
        ELSE /\ round.reads = 0 /\ round.tested = <<>>
             /\ round.refreshes = 0 /\ round.draws = 0 /\ round.sends = 0

\* C5: the actor never terminates because of a failure inside a round.
C5_ActorNeverDies == apc # "dead"

\* C6: two rounds never submit for the same vault tokens: every transaction
\* awaiting execution has its own share_size * number_of_shares in the vault.
C6_NoDoubleSubmission ==
    Len(pending) * Threshold(distributor_state) <= ledger_vault

\* C11: every assembled distribution transaction carries exactly
\* 2 * (number_of_shares - 1) auxiliary accounts, alternating a winner and that
\* winner's associated token account, in winner order, which is the count the
\* on-ledger distribute requires: it never fails with MissingRemainingAccounts.
C11_AccountShaping ==
    \A k \in 1..Len(pending) :
        LET tx == pending[k]
            S == distributor_state.number_of_shares
        IN /\ Len(tx.winners) = S - 1
           /\ Len(tx.remaining_accounts) = 2 * (S - 1)
           /\ \A j \in 1..(S - 1) :
                 /\ tx.remaining_accounts[2 * j - 1].pubkey = Pubkey(tx.winners[j])
                 /\ tx.remaining_accounts[2 * j].pubkey =
                        AssociatedTokenAddress(Pubkey(tx.winners[j]))
           /\ DistributeCheck(Threshold(distributor_state), distributor_state,
                              tx.remaining_accounts) = "ok"

\* a transaction for three shares was assembled from two different winners
C11_Witness ==
    /\ distributor_state.number_of_shares = 3
    /\ pending # <<>>
    /\ Len(pending[1].winners) = 2
    /\ pending[1].winners[1] # pending[1].winners[2]
    /\ Len(pending[1].remaining_accounts) = 4

\* C12: every submitted transaction carries a priority-fee price obtained from the
\* fee-estimation service before submission.
C12_PriorityFeeAttached ==
    \A k \in 1..Len(pending) :
        \E i \in 1..Len(pending[k].instructions) :
            pending[k].instructions[i] = "set_compute_unit_price"

\* C14: when discovery succeeds and the upsert of the row fails,
\* update_token_holders_number returns Ok: the cache holds the freshly discovered
\* count, the row keeps its value, and the round goes on to the draw.
C14_PersistenceIsBestEffort ==
    [][(round'.upsert = "failed" /\ round.upsert # "failed") =>
          LET found == DiscoverTokenHoldersNumber(holders_number, listing)
          IN /\ found.tag = "ok"
             /\ holders_number' = found.val
             /\ db_num' = db_num
             /\ apc' = "draw_winners"
             /\ round'.status = "running"]_vars

\* a round whose upsert failed drew from the new count and sent its transaction
C14_Witness ==
    /\ round.upsert = "failed"
    /\ round.draws = 1
    /\ round.sends = 1
    /\ db_num # holders_number


----------------------------------------------------------------------------
(* HeliusClient alone: its operations on any listing and any cached count.  *)
(* SpecHolder applies discovery to listings long enough to pass the end of *)
(* the scan; SpecDraw applies discovery and the draw to listings of two     *)
(* pages.                                                                   *)

\* most records of a listing in SpecHolder: a short page at the end of the scan
MaxHolderListing == limit * (PageEnd - 1) + 1
\* most records of a listing in SpecDraw: a full page and a short one
MaxDrawListing == limit + 1
\* largest n passed to draw_winners in SpecDraw
MaxDraw == 2

\* HeliusClient::new: holders_number is the row of the table, 0 if there is none;
\* the row was written by an earlier run, against the listing of that time
HolderInit(max) ==
    /\ distributor_state \in DistributorStates
    /\ mailbox = <<>>
    /\ next_id = 0
    /\ apc = "recv"
    /\ cur = NoMessage
    /\ vault_balance = 0
    /\ winners = <<>>
    /\ latest_hash = NoHash
    /\ db_num \in 0..max
    /\ holders_number = db_num
    /\ measured = FALSE
    /\ listing \in {ListingOf(n) : n \in 0..max}
    /\ ledger_vault = 0
    /\ pending = <<>>
    /\ round = NewRound(NoMessage, "none")
    /\ inflight = {}
    /\ refresh_ret = NoRefresh
    /\ draw_ret = NoDraw
    /\ extract_ret = NoExtract
    /\ response = NoResponse
    /\ token_amounts = NoAmounts
    /\ mint_supply = InitialSupply
    /\ ledger_ret = NoDistribute
    /\ submit_ret = "none"
    /\ init_ret = NoInitialize
    /\ tasks = NoTasks
    /\ lock = NoTask

restOfHolder == <<distributor_state, mailbox, next_id, actorVars, ledger_vault, pending, round,
                  otherVars>>

\* update_token_holders_number()
HolderUpdate ==
    /\ \E rpc_fails \in BOOLEAN, db_fails \in BOOLEAN :
         LET out == UpdateTokenHoldersNumber(holders_number, db_num, listing,
                                             rpc_fails, db_fails)
         IN /\ holders_number' = out.holders_number
            /\ db_num' = out.db_num
            /\ measured' = (measured \/ out.ret.tag = "ok")
            /\ \E requests \in DiscoverRequests(holders_number, listing, rpc_fails) :
                  refresh_ret' = [called |-> TRUE, cached |-> holders_number,
                                  listed |-> Len(listing), requests |-> requests,
                                  ret |-> out.ret]
    /\ draw_ret' = NoDraw
    /\ UNCHANGED <<restOfHolder, listing>>

\* draw_winners(n). The call leaves HeliusClient as it was, so a second call from
\* the same state yields nothing new: the record of a call is followed by a
\* refresh or a change of the listing.
HolderDraw ==
    /\ ~draw_ret.called
    /\ \E n \in 0..MaxDraw :
         \E t \in DrawTraces(holders_number, listing, n) :
            draw_ret' = [called |-> TRUE, holders |-> holders_number,
                         measured |-> measured,
                         refreshed |-> (refresh_ret.called /\ refresh_ret.ret.tag = "ok"),
                         listed |-> Len(listing), n |-> n,
                         drawn |-> t.drawn, fetched |-> t.fetched, ret |-> t.ret]
    /\ refresh_ret' = NoRefresh
    /\ UNCHANGED <<restOfHolder, holderVars, listing>>

\* accounts of the marker token are opened or closed, up to `max` accounts
ListingChanges(max) ==
    /\ \E n \in 0..max : n # Len(listing) /\ listing' = ListingOf(n)
    /\ refresh_ret' = NoRefresh
    /\ draw_ret' = NoDraw
    /\ UNCHANGED <<restOfHolder, holderVars>>

HolderListingChanges == ListingChanges(MaxHolderListing)
DrawListingChanges == ListingChanges(MaxDrawListing)

InitHolder == HolderInit(MaxHolderListing)

NextHolder ==
    \/ HolderUpdate
    \/ HolderListingChanges

SpecHolder == InitHolder /\ [][NextHolder]_vars

InitDraw == HolderInit(MaxDrawListing)

NextDraw ==
    \/ HolderUpdate
    \/ HolderDraw
    \/ DrawListingChanges

SpecDraw == InitDraw /\ [][NextDraw]_vars


----------------------------------------------------------------------------
(* Claims about discovery, checked under SpecHolder                        *)

C8_RefreshMeasuresTrueCount ==
    (refresh_ret.called /\ refresh_ret.ret.tag = "ok")
       => /\ refresh_ret.ret.val = refresh_ret.listed
          /\ holders_number = refresh_ret.listed

\* C13: when a page request fails or the scan reaches its last page without a
\* short page, update_token_holders_number leaves holders_number and the row of
\* the table as they were before the call.
C13_CacheKeptOnFailedDiscovery ==
    [][(refresh_ret'.called /\ refresh_ret'.ret.tag # "ok") =>
          /\ holders_number' = holders_number
          /\ db_num' = db_num]_vars

\* a scan resumed from a cached count of limit + 1 ran out of pages, and the
\* cache still holds limit + 1
C13_Witness ==
    /\ refresh_ret.called
    /\ refresh_ret.ret = Err("TooManyPages")
    /\ refresh_ret.cached = limit + 1
    /\ holders_number = limit + 1

\* C18: discovery fails with TooManyPages if and only if it scans more pages than
\* the ceiling (PageEnd, for 2000) from its resumption page without meeting a
\* short page: when the first short page at or after the resumption page is among
\* the first PageEnd pages scanned, the call returns a count.
C18_TooManyPagesOnlyPastCeiling ==
    LET p == refresh_ret.cached \div limit + 1
        K == refresh_ret.listed \div limit
        short == IF p > K + 1 THEN p ELSE K + 1
        scanned == short - p + 1
    IN (refresh_ret.called /\ refresh_ret.ret.why # "rpc") =>
          /\ scanned <= PageEnd => refresh_ret.ret.tag = "ok"
          /\ scanned > PageEnd => refresh_ret.ret = Err("TooManyPages")

----------------------------------------------------------------------------
(* Claims about the draw, checked under SpecDraw                           *)

\* C9: draw_winners(n) fails with InsufficientHolders whenever
\* n >= holders_number, holders_number = 0 included, and returns no winners.
C9_InsufficientHolders ==
    (/\ draw_ret.called
     /\ draw_ret.measured
     /\ draw_ret.n >= draw_ret.holders
     /\ draw_ret.ret.why # "rpc")
       => draw_ret.ret = Err("InsufficientHolders")

\* C10: when n < holders_number and every page is fetched, draw_winners(n)
\* returns exactly n addresses, each the owner of a record i < holders_number of
\* the listing.
C10_DrawReturnsListedOwners ==
    (/\ draw_ret.called
     /\ draw_ret.measured
     /\ draw_ret.n < draw_ret.holders
     /\ draw_ret.ret.why # "rpc")
       => /\ draw_ret.ret.tag = "ok"
          /\ Len(draw_ret.ret.val) = draw_ret.n
          /\ \A k \in 1..draw_ret.n :
                \E i \in 0..(draw_ret.holders - 1) :
                   /\ i < draw_ret.listed
                   /\ draw_ret.ret.val[k] = ListingOf(draw_ret.listed)[i + 1]

----------------------------------------------------------------------------
(* The HTTP handlers: backend/src/main.rs. They run a round themselves, in  *)
(* the request's task, and do not go through the actor.                     *)

\* webhook_handle: filter_map(|tx| vault_balance(vault, tx).ok()).last(), where
\* vault_balance (main.rs:258-297) is extract_vault_balance word for word
RECURSIVE LastVaultBalance(_)
LastVaultBalance(batch) ==
    IF batch = <<>> THEN <<"none">>
    ELSE LET rest == LastVaultBalance(Tail(batch)) IN
         IF rest[1] = "some" THEN rest
         ELSE IF extract_vault_balance(Head(batch)).tag = "ok"
              THEN <<"some", extract_vault_balance(Head(batch)).val>>
              ELSE <<"none">>

\* the bodies a caller posts: up to two records
HttpRecords == {OtherRecord, VaultRecord(0), VaultRecord(MaxVault)}
Batches == UNION {[1..n -> HttpRecords] : n \in 0..2}

\* the instructions of the transaction main.rs builds (main.rs:134-153)
HttpInstructions ==
    <<"set_compute_unit_limit", "set_compute_unit_price", "build_memo", "distribute">>

\* the outcome of a handler's round: the result, what it leaves in HeliusClient,
\* the transactions it sent
RoundOutcome(ret, upd, sent) ==
    [ret |-> ret, holders_number |-> upd.holders_number, db_num |-> upd.db_num,
     measured |-> measured \/ upd.ret.tag = "ok", sent |-> sent]

\* distribute_tokens of main.rs: the outcomes of one call, for every failure of a
\* remote call and every sample of the draw; a panic of the draw ends the
\* request's task
HttpDistributeTokens(balance) ==
    IF ~ThresholdReached(balance, distributor_state)
    THEN {[ret |-> "ok", holders_number |-> holders_number, db_num |-> db_num,
           measured |-> measured, sent |-> <<>>]}
    ELSE UNION {
        LET upd == UpdateTokenHoldersNumber(holders_number, db_num, listing,
                                            rpc_fails, db_fails)
        IN IF upd.ret.tag # "ok"
           THEN {RoundOutcome("err", upd, <<>>)}
           ELSE UNION {
               CASE out.tag = "panic" -> {RoundOutcome("panic", upd, <<>>)}
                 [] out.tag = "err" -> {RoundOutcome("err", upd, <<>>)}
                 [] out.tag = "ok" ->
                      \* get_latest_blockhash, fetch_recent_priority_fee or
                      \* send_transaction fails, or the transaction is sent
                      {RoundOutcome("err", upd, <<>>),
                       RoundOutcome("ok", upd,
                           <<[event |-> next_id + 1, instructions |-> HttpInstructions,
                              winners |-> out.val,
                              remaining_accounts |-> RemainingAccounts(out.val),
                              recent_blockhash |-> next_id + 1]>>)}
               : out \in DrawWinnersOfRound(distributor_state, upd.holders_number, listing)}
        : rpc_fails \in BOOLEAN, db_fails \in BOOLEAN}

\* the response to a handler's round: Ok(()) is 200, an error is mapped to
\* INTERNAL_SERVER_ERROR, a panic leaves the caller without a response
StatusOf(ret) == CASE ret = "ok" -> 200 [] ret = "err" -> 500 [] ret = "panic" -> 0

\* what a handler's round leaves behind
HttpRound(handler, batch, balance) ==
    \E o \in HttpDistributeTokens(balance) :
        /\ holders_number' = o.holders_number
        /\ db_num' = o.db_num
        /\ measured' = o.measured
        /\ pending' = pending \o o.sent
        /\ response' = [handler |-> handler, batch |-> batch, status |-> StatusOf(o.ret)]

httpFrame == <<distributor_state, mailbox, actorVars, listing, ledger_vault, round,
               ghostRets, extract_ret, token_amounts, mint_supply, ledger_ret, submit_ret,
               init_ret, taskVars>>

\* webhook_handle: POST /
WebhookHandle ==
    /\ next_id < MaxEvents
    /\ next_id' = next_id + 1
    /\ UNCHANGED httpFrame
    /\ \/ /\ response' = [handler |-> "webhook", batch |-> <<>>, status |-> 400]
          /\ UNCHANGED <<holderVars, pending>>            \* Failed to parse request body
       \/ \E batch \in Batches :
             IF LastVaultBalance(batch)[1] = "none"
             THEN /\ response' = [handler |-> "webhook", batch |-> batch, status |-> 200]
                  /\ UNCHANGED <<holderVars, pending>>
             ELSE HttpRound("webhook", batch, LastVaultBalance(batch)[2])

\* explicit_handle: GET /distibute
ExplicitHandle ==
    /\ next_id < MaxEvents
    /\ next_id' = next_id + 1
    /\ UNCHANGED httpFrame
    /\ \/ /\ response' = [handler |-> "explicit", batch |-> <<>>, status |-> 500]
          /\ UNCHANGED <<holderVars, pending>>            \* Failed to fetch vault balance
       \/ HttpRound("explicit", <<>>, ledger_vault)

NextHttp ==
    \/ WebhookHandle
    \/ ExplicitHandle
    \/ LedgerExecute
    \/ Deposit
    \/ HolderJoins
    \/ HoldersExit

SpecHttp == Init /\ [][NextHttp]_vars

\* C20: the threshold a round was started on is the exact product
\* share_size * number_of_shares, which fits u64, and a snapshot whose product
\* overflows u64 or whose number_of_shares is below 2 starts no round and ends no
\* actor: checked on every snapshot of SnapshotStates.
C20_SnapshotRevalidated ==
    LET ss == distributor_state.share_size
        S == distributor_state.number_of_shares
        started == round.refreshes > 0 \/ apc = "update_token_holders_number"
    IN /\ started => /\ round.tested # <<>>
                     /\ round.tested[1] >= ss * S
       /\ (ss * S > MaxU64 \/ S < 2) => (~started /\ round.status # "panic")

\* C16: across the batch of records of an event, the balance tested is that of
\* the last record that yields a vault balance, and if no record yields one the
\* event is a no-op. The actor's message carries the event's records: one or none.
C16_LastYieldingRecord ==
    LET batch == IF round.payload.some THEN <<round.payload.tx>> ELSE <<>>
        last == LastVaultBalance(batch)
    IN (round.id # 0 /\ batch # <<>>) =>
          /\ last[1] = "some" => \A k \in 1..Len(round.tested) : round.tested[k] = last[2]
          /\ last[1] = "none" => round.reads + Len(round.tested) + round.refreshes
                                     + round.draws + round.sends = 0

\* C15: the caller of a trigger whose request was accepted receives a successful
\* response, whatever becomes of the round.
C15_AckIndependentOfRound ==
    (response.handler # "none" /\ response.status # 400) => response.status = 200

----------------------------------------------------------------------------
(* extract_vault_balance alone, applied to every record of Records         *)

InitExtract ==
    /\ distributor_state \in DistributorStates
    /\ mailbox = <<>>
    /\ next_id = 0
    /\ apc = "recv"
    /\ cur = NoMessage
    /\ vault_balance = 0
    /\ winners = <<>>
    /\ latest_hash = NoHash
    /\ holders_number = 0
    /\ db_num = 0
    /\ measured = FALSE
    /\ listing = <<>>
    /\ ledger_vault = 0
    /\ pending = <<>>
    /\ round = NewRound(NoMessage, "none")
    /\ inflight = {}
    /\ refresh_ret = NoRefresh
    /\ draw_ret = NoDraw
    /\ extract_ret \in {[called |-> FALSE, tx |-> r, ret |-> Ok(0)] : r \in Records}
    /\ response = NoResponse
    /\ token_amounts = NoAmounts
    /\ mint_supply = InitialSupply
    /\ ledger_ret = NoDistribute
    /\ submit_ret = "none"
    /\ init_ret = NoInitialize
    /\ tasks = NoTasks
    /\ lock = NoTask

\* extract_vault_balance(&vault, &tx)
ExtractVaultBalance ==
    /\ ~extract_ret.called
    /\ extract_ret' = [called |-> TRUE, tx |-> extract_ret.tx,
                       ret |-> extract_vault_balance(extract_ret.tx)]
    /\ UNCHANGED <<distributor_state, mailbox, next_id, actorVars, holderVars, listing,
                   ledger_vault, pending, round, ghostRets, response, token_amounts,
                   mint_supply, ledger_ret, submit_ret, init_ret, taskVars>>

NextExtract == ExtractVaultBalance

SpecExtract == InitExtract /\ [][NextExtract]_vars

\* C17: extract_vault_balance returns the amount of the first post-execution
\* token balance whose account_index is the first position of the vault among the
\* account keys; it returns an error, never a balance, when the vault is not among
\* the keys, when meta or post_token_balances is missing, when no entry has the
\* vault's position, or when the amount is not a u64; a well-formed record with
\* such an entry yields its balance.
C17_ExtractVaultBalance ==
    LET tx == extract_ret.tx
        ret == extract_ret.ret
        keys == tx.account_keys
        balances == tx.post_token_balances
        present == \E k \in 1..Len(keys) : keys[k] = VaultKey
        pos == (CHOOSE k \in 1..Len(keys) :
                   keys[k] = VaultKey /\ \A j \in 1..(k - 1) : keys[j] # VaultKey) - 1
        matching == {k \in 1..Len(balances) : balances[k].account_index = pos}
        first == CHOOSE k \in matching : \A j \in matching : k <= j
        Writes(a, v) == a = AmountString(v) \/ a = <<"+">> \o AmountString(v)
        IsU64(a) == \E v \in 0..MaxU64 : Writes(a, v)
        found == /\ present /\ tx.has_meta /\ tx.has_post_token_balances
                 /\ matching # {}
                 /\ IsU64(balances[first].amount)
        readable == /\ tx.encoding = "json_raw"
                    /\ \A k \in 1..Len(keys) : keys[k] # NotAKey
    IN extract_ret.called =>
          /\ ret.tag \in {"ok", "err"}
          /\ ret.tag = "ok" => /\ found
                               /\ ret.val \in 0..MaxU64
                               /\ Writes(balances[first].amount, ret.val)
          /\ ~found => ret.tag = "err"
          /\ (found /\ readable) => ret.tag = "ok"

\* the vault is the first key, and of two balances the second is the vault's
C17_Witness ==
    /\ extract_ret.called
    /\ extract_ret.ret = Ok(MaxVault)
    /\ extract_ret.tx.account_keys[1] = VaultKey
    /\ Len(extract_ret.tx.post_token_balances) = 2
    /\ extract_ret.tx.post_token_balances[1].account_index = 1
    /\ extract_ret.tx.post_token_balances[2].account_index = 0

----------------------------------------------------------------------------
(* The on-ledger program alone: deposit and distribute with any remaining   *)
(* accounts, the recipients' token accounts and the mint's supply followed. *)

\* the loop over remaining_accounts.iter().tuples(): each pair is checked and
\* paid in turn, so a bad pair is met after the pairs before it were paid
RECURSIVE TransferShares(_, _, _)
TransferShares(ds, st, pairs) ==
    IF pairs = <<>> THEN st
    ELSE LET authority == pairs[1][1].pubkey
             token_account == pairs[1][2].pubkey
         IN IF token_account # AssociatedTokenAddress(authority)
            THEN [st EXCEPT !.err = "InvalidAssociatedTokenAccount"]
            ELSE TransferShares(ds,
                     [st EXCEPT !.vault = @ - ds.share_size,
                                !.amounts[token_account[2]] = @ + ds.share_size],
                     Tail(pairs))

\* the mutant leaves out the require_eq! on the number of remaining accounts
DistributeWithoutCount(ds, st, accounts) ==
    IF st.vault < Threshold(ds)
    THEN [st EXCEPT !.err = "ThresholdNotMet"]
    ELSE LET paid == TransferShares(ds, st, Tuples(accounts)) IN
         IF paid.err # "ok" THEN paid
         ELSE [paid EXCEPT !.vault = @ - ds.share_size, !.supply = @ - ds.share_size]

\* the mutant leaves out the burn
DistributeWithoutBurn(ds, st, accounts) ==
    IF st.vault < Threshold(ds)
    THEN [st EXCEPT !.err = "ThresholdNotMet"]
    ELSE IF Len(accounts) # (ds.number_of_shares - 1) * 2
    THEN [st EXCEPT !.err = "MissingRemainingAccounts"]
    ELSE TransferShares(ds, st, Tuples(accounts))

\* distribute, run on the accounts st = [err, vault, amounts, supply]: the two
\* require! checks, the loop, the burn; the accounts as the instruction leaves them
DistributeInstruction(ds, st, accounts) ==
    IF st.vault < Threshold(ds)
    THEN [st EXCEPT !.err = "ThresholdNotMet"]
    ELSE IF Len(accounts) # (ds.number_of_shares - 1) * 2
    THEN [st EXCEPT !.err = "MissingRemainingAccounts"]
    ELSE LET paid == TransferShares(ds, st, Tuples(accounts)) IN
         IF paid.err # "ok" THEN paid
         ELSE [paid EXCEPT !.vault = @ - ds.share_size, !.supply = @ - ds.share_size]

\* an instruction that returns Err aborts its transaction: the ledger keeps the
\* accounts as they were before it
ExecuteTransaction(before, after) ==
    IF after.err = "ok" THEN after ELSE [before EXCEPT !.err = after.err]

\* the pairs a caller may pass: an authority of LedgerOwners with its associated
\* token account, or with that of a later owner
AccountPairs ==
    {<<AccountMetaReadonly(Pubkey(i)), AccountMetaNew(AssociatedTokenAddress(Pubkey(j)))>> :
        <<i, j>> \in {p \in LedgerOwners \X LedgerOwners : p[1] <= p[2]}}

RECURSIVE Flatten(_)
Flatten(pairs) == IF pairs = <<>> THEN <<>> ELSE pairs[1] \o Flatten(Tail(pairs))

\* the remaining accounts a caller may pass: up to MaxShares pairs, and possibly
\* one account more
AccountLists ==
    LET lists == {Flatten(ps) : ps \in UNION {[1..n -> AccountPairs] : n \in 0..MaxShares}}
    IN lists \cup {l \o <<AccountMetaReadonly(Pubkey(1))>> : l \in lists}

ledgerFrame == <<distributor_state, mailbox, next_id, actorVars, holderVars, listing,
                 pending, round, ghostRets, extract_ret, response, submit_ret, init_ret,
                 taskVars>>

\* the program's accounts at the start, and the remaining accounts the behaviour's
\* distribute instructions carry
InitLedger ==
    /\ distributor_state \in DistributorStates
    /\ mailbox = <<>>
    /\ next_id = 0
    /\ apc = "recv"
    /\ cur = NoMessage
    /\ vault_balance = 0
    /\ winners = <<>>
    /\ latest_hash = NoHash
    /\ holders_number = 0
    /\ db_num = 0
    /\ measured = FALSE
    /\ listing = <<>>
    /\ ledger_vault = 0
    /\ pending = <<>>
    /\ round = NewRound(NoMessage, "none")
    /\ inflight = {}
    /\ refresh_ret = NoRefresh
    /\ draw_ret = NoDraw
    /\ extract_ret = NoExtract
    /\ response = NoResponse
    /\ token_amounts = NoAmounts
    /\ mint_supply = InitialSupply
    /\ ledger_ret \in {[NoDistribute EXCEPT !.accounts = l] : l \in AccountLists}
    /\ submit_ret = "none"
    /\ init_ret = NoInitialize
    /\ tasks = NoTasks
    /\ lock = NoTask

\* a transaction with the distribute instruction is executed
LedgerDistribute ==
    /\ LET accounts == ledger_ret.accounts IN
         LET before == [err |-> "ok", vault |-> ledger_vault, amounts |-> token_amounts,
                        supply |-> mint_supply]
             after == ExecuteTransaction(before,
                          DistributeInstruction(distributor_state, before, accounts))
         IN /\ ledger_vault' = after.vault
            /\ token_amounts' = after.amounts
            /\ mint_supply' = after.supply
            /\ ledger_ret' = [called |-> TRUE, err |-> after.err, accounts |-> accounts]
    /\ UNCHANGED ledgerFrame

\* deposit: transfer_checked from a token account outside the model into the vault
LedgerDeposit ==
    /\ \E amount \in 1..MaxVault :
         /\ ledger_vault + token_amounts[1] + token_amounts[2] + amount <= mint_supply
         /\ ledger_vault' = ledger_vault + amount
    /\ ledger_ret' = [NoDistribute EXCEPT !.accounts = ledger_ret.accounts]
    /\ UNCHANGED <<ledgerFrame, token_amounts, mint_supply>>

NextLedger ==
    \/ LedgerDistribute
    \/ LedgerDeposit

SpecLedger == InitLedger /\ [][NextLedger]_vars

\* C19: distribute fails with ThresholdNotMet if the vault holds less than
\* share_size * number_of_shares, with MissingRemainingAccounts if the number of
\* remaining accounts is not 2 * (number_of_shares - 1), with
\* InvalidAssociatedTokenAccount if a pair's token account is not the associated
\* token account of its authority; and a failed distribute leaves the vault, the
\* recipients' amounts and the mint's supply unchanged.
C19_DistributeRejectsWhole ==
    [][ledger_ret'.called =>
          LET accounts == ledger_ret'.accounts
              S == distributor_state.number_of_shares
              below == ledger_vault < distributor_state.share_size * S
              miscounted == Len(accounts) # 2 * (S - 1)
              mispaired == \E k \in 1..(Len(accounts) \div 2) :
                              accounts[2 * k].pubkey
                                  # AssociatedTokenAddress(accounts[2 * k - 1].pubkey)
          IN /\ below => ledger_ret'.err = "ThresholdNotMet"
             /\ (~below /\ miscounted) => ledger_ret'.err = "MissingRemainingAccounts"
             /\ (~below /\ ~miscounted /\ mispaired)
                    => ledger_ret'.err = "InvalidAssociatedTokenAccount"
             /\ (below \/ miscounted \/ mispaired) =>
                    /\ ledger_vault' = ledger_vault
                    /\ token_amounts' = token_amounts
                    /\ mint_supply' = mint_supply]_vars

\* three shares, the vault at the threshold, a good pair first and a bad pair
\* second: rejected after the first pair's transfer, nothing has moved
C19_Witness ==
    /\ ledger_ret.called
    /\ ledger_ret.err = "InvalidAssociatedTokenAccount"
    /\ distributor_state.number_of_shares = 3
    /\ Len(ledger_ret.accounts) = 4
    /\ ledger_ret.accounts[2].pubkey = AssociatedTokenAddress(ledger_ret.accounts[1].pubkey)
    /\ ledger_vault = 3
    /\ token_amounts = NoAmounts

----------------------------------------------------------------------------
(* Claims about the mailbox, checked under Spec                            *)

\* C21: handle_request is never made to wait and succeeds whenever the actor is
\* alive, whatever the mailbox holds and whether or not an event is being handled:
\* the message is appended to the mailbox. It panics, and enqueues nothing, only
\* when the actor's task has ended.
C21_SubmitNeverBlocks ==
    [][/\ (next_id < MaxEvents) => ENABLED HandleRequest
       /\ next_id' # next_id =>
             IF apc # "dead"
             THEN /\ submit_ret' = "ok"
                  /\ Len(mailbox') = Len(mailbox) + 1
                  /\ mailbox'[Len(mailbox')].id = next_id'
                  /\ \A k \in 1..Len(mailbox) : mailbox'[k] = mailbox[k]
             ELSE /\ submit_ret' = "panic"
                  /\ mailbox' = mailbox]_vars

\* an event was submitted while the round of the first one awaits its submission
C21_Witness ==
    /\ submit_ret = "ok"
    /\ apc = "send_transaction"
    /\ round.id = 1
    /\ Len(mailbox) = 1
    /\ mailbox[1].id = 2

\* C22: every event handle_request accepted is consumed exactly once: the events
\* waiting in the mailbox are the ones sent after the latest event taken, each once
\* and in order, and an event that waits is not dropped: the actor is there to
\* take it.
C22_ConsumedExactlyOnce ==
    /\ \A k \in 1..Len(mailbox) : mailbox[k].id = round.id + k
    /\ mailbox # <<>> => apc # "dead"

\* C23: within a round the steps are called in the order refresh, draw of
\* number_of_shares - 1 winners, fetch of the blockhash, submission; a step is
\* called only after every earlier step of the round returned Ok, so a failed step
\* is the round's last; and every transaction is signed with the blockhash fetched
\* in its own round, never with that of another round.
C23_RoundStepOrder ==
    LET n == Len(round.calls)
        S == distributor_state.number_of_shares
    IN /\ n <= Len(RoundSteps)
       /\ \A k \in 1..n : round.calls[k].step = RoundSteps[k]
       /\ \A k \in 1..(n - 1) : round.calls[k].ok
       /\ \A i \in 1..Len(RoundSteps) : apc = RoundSteps[i] => n = i - 1
       /\ (n > 0 /\ ~round.calls[n].ok) =>
              /\ apc \in {"recv", "dead"}
              /\ round.status \in {"err", "panic"}
              /\ round.sends = 0
       /\ round.sends > 0 => (n = Len(RoundSteps) /\ round.calls[n].ok)
       /\ apc \in {"get_latest_blockhash", "send_transaction"} => Len(winners) = S - 1
       /\ apc = "send_transaction" => latest_hash = cur.id
       /\ \A k \in 1..Len(pending) :
              /\ pending[k].recent_blockhash = pending[k].event
              /\ Len(pending[k].winners) = S - 1
              /\ \A j \in 1..(k - 1) :
                     pending[j].recent_blockhash # pending[k].recent_blockhash

\* two rounds each sent a transaction, each signed with its own blockhash
C23_Witness ==
    /\ Len(pending) = 2
    /\ pending[1].recent_blockhash = 1
    /\ pending[2].recent_blockhash = 2
    /\ Len(round.calls) = 4
    /\ round.status = "ok"

----------------------------------------------------------------------------
(* Claims about the pages and the order of a draw, checked under SpecDraw  *)

\* C24: in one call of draw_winners no page is requested twice, however many drawn
\* indices fall on it, and every page requested is the page of a drawn index.
C24_PageFetchedOnce ==
    draw_ret.called =>
        /\ \A i, j \in 1..Len(draw_ret.fetched) :
               draw_ret.fetched[i] = draw_ret.fetched[j] => i = j
        /\ \A i \in 1..Len(draw_ret.fetched) :
               \E k \in 1..Len(draw_ret.drawn) :
                  draw_ret.fetched[i] = draw_ret.drawn[k] \div limit + 1
        /\ draw_ret.ret.tag = "ok" =>
               \A k \in 1..Len(draw_ret.drawn) :
                  \E i \in 1..Len(draw_ret.fetched) :
                     draw_ret.fetched[i] = draw_ret.drawn[k] \div limit + 1

\* two indices were drawn on the first page, which was requested once
C24_Witness ==
    /\ draw_ret.called
    /\ draw_ret.ret.tag = "ok"
    /\ draw_ret.drawn = <<1, 0>>
    /\ draw_ret.fetched = <<1>>

\* C25: the winners draw_winners returns are the owners of the drawn records in
\* non-decreasing order of the drawn index, whatever the order the indices were
\* drawn in: one winner per drawn index.
C25_WinnersInIndexOrder ==
    (draw_ret.called /\ draw_ret.ret.tag = "ok") =>
        LET n == Len(draw_ret.drawn)
            val == draw_ret.ret.val
        IN /\ Len(val) = n
           /\ \E perm \in [1..n -> 1..n] :
                 /\ \A i, j \in 1..n : perm[i] = perm[j] => i = j
                 /\ \A k \in 1..(n - 1) :
                        draw_ret.drawn[perm[k]] <= draw_ret.drawn[perm[k + 1]]
                 /\ \A k \in 1..n :
                        val[k] = ListingOf(draw_ret.listed)[draw_ret.drawn[perm[k]] + 1]

\* the index of the second page was drawn before one of the first page: the
\* winner of the first page comes first
C25_Witness ==
    /\ draw_ret.called
    /\ draw_ret.drawn = <<limit, 0>>
    /\ draw_ret.ret.tag = "ok"
    /\ draw_ret.ret.val = <<ListingOf(limit + 1)[1], ListingOf(limit + 1)[limit + 1]>>

\* C26: a failed round is not retried. Once the handling of an event has ended,
\* nothing more is called for it: its record changes only when the next event of
\* the mailbox is taken. Within the handling of one event the vault is read at
\* most once and every step of the round is called at most once, so an event
\* causes at most one attempt to submit, and a transaction enters the ledger's
\* queue only as the single submission of the event being handled.
C26_NoRetry ==
    [][/\ round.status # "running" =>
             \/ round' = round
             \/ /\ mailbox # <<>>
                /\ round' = NewRound(mailbox[1], "running")
       /\ round'.reads <= 1
       /\ \A i, j \in 1..Len(round'.calls) :
             round'.calls[i].step = round'.calls[j].step => i = j
       /\ Len(pending') > Len(pending) =>
             /\ apc = "send_transaction"
             /\ round.status = "running"
             /\ \A i \in 1..Len(round.calls) : round.calls[i].step # "send_transaction"
             /\ pending' = Append(pending, pending'[Len(pending')])
             /\ pending'[Len(pending')].event = cur.id]_vars

\* the only event's submission failed: the actor waits in recv with an empty
\* mailbox, the vault still at the threshold, and nothing was sent
C26_Witness ==
    /\ apc = "recv"
    /\ mailbox = <<>>
    /\ round.id = 1
    /\ round.status = "err"
    /\ Len(round.calls) = Len(RoundSteps)
    /\ ~round.calls[Len(round.calls)].ok
    /\ pending = <<>>
    /\ ledger_vault >= Threshold(distributor_state)

----------------------------------------------------------------------------
(* Claims about the cost of discovery, checked under SpecHolder            *)

\* C27: one call of update_token_holders_number ends with a result after at most
\* PageEnd (for 2000) listing requests, from every cached count: it requests no
\* page at or past the end of the range. A listing of limit * (PageEnd - 1)
\* records or more answers every request of the scan with a full page, as a
\* backend that never sends a short page does: the call then fails with
\* TooManyPages after one request per page from its first page to the end.
C27_DiscoveryBounded ==
    LET first == refresh_ret.cached \div limit + 1
        most == IF first < PageEnd THEN PageEnd - first ELSE 0
    IN refresh_ret.called =>
          /\ refresh_ret.ret.tag \in {"ok", "err"}
          /\ refresh_ret.requests <= most
          /\ refresh_ret.requests <= PageEnd
          /\ (refresh_ret.listed >= limit * (PageEnd - 1) /\ refresh_ret.ret.why # "rpc")
                 => /\ refresh_ret.ret = Err("TooManyPages")
                    /\ refresh_ret.requests = most

\* a scan from the first page met full pages only and gave up at the end of
\* the range
C27_Witness ==
    /\ refresh_ret.called
    /\ refresh_ret.cached = 0
    /\ refresh_ret.listed >= limit * (PageEnd - 1)
    /\ refresh_ret.requests = PageEnd - 1
    /\ refresh_ret.ret = Err("TooManyPages")

----------------------------------------------------------------------------
(* Claims about the winner set, checked under Spec                         *)

\* C28: the draw is with replacement and nothing removes a winner drawn twice: a
\* draw that returns Ok leaves number_of_shares - 1 winners, equal ones included,
\* the winners stay as drawn until the transaction is assembled, and the
\* transaction carries a pair of accounts for every one of them, in their order.
C28_DuplicatesKept ==
    [][/\ (apc = "draw_winners" /\ apc' = "get_latest_blockhash") =>
             Len(winners') = distributor_state.number_of_shares - 1
       /\ (apc \in {"get_latest_blockhash", "send_transaction"} /\ apc' # "recv") =>
             winners' = winners
       /\ Len(pending') > Len(pending) =>
             LET tx == pending'[Len(pending')] IN
             /\ tx.winners = winners
             /\ Len(tx.remaining_accounts) = 2 * Len(winners)
             /\ \A j \in 1..Len(winners) :
                   /\ tx.remaining_accounts[2 * j - 1].pubkey = Pubkey(winners[j])
                   /\ tx.remaining_accounts[2 * j].pubkey =
                          AssociatedTokenAddress(Pubkey(winners[j]))]_vars

\* of two holders one was drawn twice: the transaction names that holder, and
\* the holder's token account, twice
C28_Witness ==
    /\ distributor_state.number_of_shares = 3
    /\ holders_number = 2
    /\ Len(listing) = 2
    /\ pending # <<>>
    /\ pending[1].winners[1] = pending[1].winners[2]
    /\ pending[1].remaining_accounts[1] = pending[1].remaining_accounts[3]
    /\ pending[1].remaining_accounts[2] = pending[1].remaining_accounts[4]

----------------------------------------------------------------------------
(* initialize alone, applied to every pair of u64 arguments                *)

\* the DistributorState account before initialize has written it: the zeroed
\* data of the account the `init` constraint creates
NoDistributorState == [share_size |-> 0, number_of_shares |-> 0]

InitInitialize ==
    /\ distributor_state = NoDistributorState
    /\ mailbox = <<>>
    /\ next_id = 0
    /\ apc = "recv"
    /\ cur = NoMessage
    /\ vault_balance = 0
    /\ winners = <<>>
    /\ latest_hash = NoHash
    /\ holders_number = 0
    /\ db_num = 0
    /\ measured = FALSE
    /\ listing = <<>>
    /\ ledger_vault = 0
    /\ pending = <<>>
    /\ round = NewRound(NoMessage, "none")
    /\ inflight = {}
    /\ refresh_ret = NoRefresh
    /\ draw_ret = NoDraw
    /\ extract_ret = NoExtract
    /\ response = NoResponse
    /\ token_amounts = NoAmounts
    /\ mint_supply = InitialSupply
    /\ ledger_ret = NoDistribute
    /\ submit_ret = "none"
    /\ init_ret \in {[NoInitialize EXCEPT !.share_size = ss, !.number_of_shares = n] :
                         ss \in 0..MaxU64, n \in 0..MaxU64}
    /\ tasks = NoTasks
    /\ lock = NoTask

\* initialize(share_size, number_of_shares): the require! checks, then the
\* fields are written. An instruction that returns Err aborts its transaction
\* and the account is not created.
Initialize ==
    /\ ~init_ret.called
    /\ IF InitializeAccepts(init_ret.share_size, init_ret.number_of_shares)
       THEN /\ distributor_state' = [share_size |-> init_ret.share_size,
                                     number_of_shares |-> init_ret.number_of_shares]
            /\ init_ret' = [init_ret EXCEPT !.called = TRUE, !.err = "ok"]
       ELSE /\ distributor_state' = distributor_state
            /\ init_ret' = [init_ret EXCEPT !.called = TRUE, !.err = "InvalidParameters"]
    /\ UNCHANGED <<mailbox, next_id, actorVars, holderVars, listing, ledger_vault,
                   pending, round, ghostRets, extract_ret, response, token_amounts,
                   mint_supply, ledger_ret, submit_ret, taskVars>>

NextInitialize == Initialize

SpecInitialize == InitInitialize /\ [][NextInitialize]_vars

\* C29: initialize succeeds exactly when share_size > 0, number_of_shares > 1 and
\* share_size * number_of_shares fits u64 (no other check of the model's
\* initialize can fail); otherwise it fails with InvalidParameters and the state
\* is not written. So an initialized DistributorState has number_of_shares >= 2
\* and its threshold() is the exact product.
C29_InitializeValidates ==
    LET ss == init_ret.share_size
        n == init_ret.number_of_shares
        valid == ss >= 1 /\ n >= 2 /\ ss * n < 2 ^ U64Bits
    IN /\ ~init_ret.called => distributor_state = NoDistributorState
       /\ init_ret.called =>
             /\ valid => /\ init_ret.err = "ok"
                         /\ distributor_state = [share_size |-> ss, number_of_shares |-> n]
                         /\ distributor_state.number_of_shares >= 2
                         /\ Threshold(distributor_state) = ss * n
             /\ ~valid => /\ init_ret.err = "InvalidParameters"
                          /\ distributor_state = NoDistributorState

\* two shares of the largest size whose product still fits u64
C29_Witness ==
    /\ init_ret.called
    /\ init_ret.err = "ok"
    /\ distributor_state.number_of_shares = 2
    /\ distributor_state.share_size = MaxU64 \div 2
    /\ Threshold(distributor_state) = MaxU64 - 1

----------------------------------------------------------------------------
(* Claims about the amounts on the ledger, checked under SpecLedger        *)

\* C30: a distribute that succeeds pays share_size to the token account of each
\* of its number_of_shares - 1 pairs and burns share_size once: the vault falls
\* by share_size * number_of_shares, the mint's supply by share_size, and each
\* recipient gains share_size for every pair that names it. A deposit adds its
\* amount to the vault. The vault's amount is never negative.
C30_DistributeConservesShares ==
    [][LET ss == distributor_state.share_size
           S == distributor_state.number_of_shares
           accounts == ledger_ret'.accounts
           Pairs(i) == {k \in 1..(Len(accounts) \div 2) :
                           accounts[2 * k].pubkey = AssociatedTokenAddress(Pubkey(i))}
       IN /\ ledger_vault >= 0 /\ ledger_vault' >= 0
          /\ (ledger_ret'.called /\ ledger_ret'.err = "ok") =>
                /\ Len(accounts) = 2 * (S - 1)
                /\ ledger_vault' = ledger_vault - ss * S
                /\ mint_supply' = mint_supply - ss
                /\ \A i \in LedgerOwners :
                      token_amounts'[i] = token_amounts[i] + ss * Cardinality(Pairs(i))
          /\ ~ledger_ret'.called =>
                /\ ledger_vault' > ledger_vault
                /\ mint_supply' = mint_supply
                /\ token_amounts' = token_amounts]_vars

\* three shares were distributed from a vault at the threshold: one to each of
\* two recipients, one burnt, the vault empty
C30_Witness ==
    /\ ledger_ret.called
    /\ ledger_ret.err = "ok"
    /\ distributor_state.number_of_shares = 3
    /\ ledger_vault = 0
    /\ token_amounts[1] = distributor_state.share_size
    /\ token_amounts[2] = distributor_state.share_size
    /\ mint_supply = InitialSupply - distributor_state.share_size

----------------------------------------------------------------------------
(* The Mutex around HeliusClient: the request tasks of main.rs, which share *)
(* one AppState, each in its own call of distribute_tokens. The statements  *)
(* from lock() to drop() are those of Actor::distribute_tokens as well      *)
(* (service.rs:79-91), whose AppState no other task can reach.              *)

\* the mutant's lock() returns whether or not the Mutex is held
MutexAlwaysAvailable(owner) == TRUE
\* Mutex::lock().await returns only when no guard of the Mutex is alive
MutexAvailable(owner) == owner = NoTask

taskFrame == <<distributor_state, mailbox, actorVars, listing, ledger_vault, round,
               ghostRets, ledgerVars, submit_ret>>

\* a handler calls distribute_tokens with the balance it read or was posted; below
\* the threshold the call returns Ok at once
TaskStart(t) ==
    /\ tasks[t].pc = "idle"
    /\ next_id < MaxEvents
    /\ next_id' = next_id + 1
    /\ \E balance \in {ledger_vault, MaxVault} :
          tasks' = [tasks EXCEPT ![t].pc =
                       IF ThresholdReached(balance, distributor_state)
                       THEN "lock" ELSE "idle"]
    /\ UNCHANGED <<taskFrame, holderVars, pending, lock>>

\* state.helius_client.lock().await
TaskLock(t) ==
    /\ tasks[t].pc = "lock"
    /\ MutexAvailable(lock)
    /\ lock' = t
    /\ tasks' = [tasks EXCEPT ![t].pc = "update_token_holders_number"]
    /\ UNCHANGED <<taskFrame, next_id, holderVars, pending>>

\* update_token_holders_number().await?: on an error the guard is dropped with
\* the return
TaskUpdateHolders(t) ==
    /\ tasks[t].pc = "update_token_holders_number"
    /\ \E rpc_fails \in BOOLEAN, db_fails \in BOOLEAN :
         LET out == UpdateTokenHoldersNumber(holders_number, db_num, listing,
                                             rpc_fails, db_fails)
         IN /\ holders_number' = out.holders_number
            /\ db_num' = out.db_num
            /\ measured' = (measured \/ out.ret.tag = "ok")
            /\ IF out.ret.tag = "ok"
               THEN /\ tasks' = [tasks EXCEPT ![t].pc = "draw_winners",
                                              ![t].wrote = out.holders_number]
                    /\ lock' = lock
               ELSE /\ tasks' = [tasks EXCEPT ![t] = IdleTask]
                    /\ lock' = NoTask
    /\ UNCHANGED <<taskFrame, next_id, pending>>

\* draw_winners(number_of_shares - 1).await?, drop(helius_client): the guard is
\* dropped by drop(), by the return on an error, or by the unwinding of a panic
TaskDrawWinners(t) ==
    /\ tasks[t].pc = "draw_winners"
    /\ \E out \in DrawWinnersOfRound(distributor_state, holders_number, listing) :
          tasks' = [tasks EXCEPT ![t] =
                       IF out.tag = "ok"
                       THEN [pc |-> "get_latest_blockhash", wrote |-> 0, winners |-> out.val]
                       ELSE IdleTask]
    /\ lock' = NoTask
    /\ UNCHANGED <<taskFrame, next_id, holderVars, pending>>

\* get_latest_blockhash and fetch_recent_priority_fee
TaskGetLatestBlockhash(t) ==
    /\ tasks[t].pc = "get_latest_blockhash"
    /\ \/ tasks' = [tasks EXCEPT ![t] = IdleTask]
       \/ tasks' = [tasks EXCEPT ![t].pc = "send_transaction"]
    /\ UNCHANGED <<taskFrame, next_id, holderVars, pending, lock>>

\* send_transaction
TaskSendTransaction(t) ==
    /\ tasks[t].pc = "send_transaction"
    /\ tasks' = [tasks EXCEPT ![t] = IdleTask]
    /\ \/ UNCHANGED pending
       \/ pending' = Append(pending,
                         [event |-> next_id, instructions |-> HttpInstructions,
                          winners |-> tasks[t].winners,
                          remaining_accounts |-> RemainingAccounts(tasks[t].winners),
                          recent_blockhash |-> next_id])
    /\ UNCHANGED <<taskFrame, next_id, holderVars, lock>>

NextLock ==
    \/ \E t \in Tasks : TaskStart(t)
    \/ \E t \in Tasks : TaskLock(t)
    \/ \E t \in Tasks : TaskUpdateHolders(t)
    \/ \E t \in Tasks : TaskDrawWinners(t)
    \/ \E t \in Tasks : TaskGetLatestBlockhash(t)
    \/ \E t \in Tasks : TaskSendTransaction(t)
    \/ HolderJoins
    \/ HoldersExit

\* the server started on a DistributorState of two shares: the Mutex is taken and
\* dropped in the same way for every number of shares. The vault stays empty, so
\* a handler that reads it stays below the threshold and one that is posted a
\* record of MaxVault tokens starts a round.
InitLock ==
    /\ distributor_state = [share_size |-> 1, number_of_shares |-> 2]
    /\ mailbox = <<>>
    /\ next_id = 0
    /\ apc = "recv"
    /\ cur = NoMessage
    /\ vault_balance = 0
    /\ winners = <<>>
    /\ latest_hash = NoHash
    /\ holders_number = 0
    /\ db_num = 0
    /\ measured = FALSE
    /\ listing = <<>>
    /\ ledger_vault = 0
    /\ pending = <<>>
    /\ round = NewRound(NoMessage, "none")
    /\ inflight = {}
    /\ refresh_ret = NoRefresh
    /\ draw_ret = NoDraw
    /\ extract_ret = NoExtract
    /\ response = NoResponse
    /\ token_amounts = NoAmounts
    /\ mint_supply = InitialSupply
    /\ ledger_ret = NoDistribute
    /\ submit_ret = "none"
    /\ init_ret = NoInitialize
    /\ tasks = NoTasks
    /\ lock = NoTask

SpecLock == InitLock /\ [][NextLock]_vars

\* C31: the count a round's draw uses is the one the same round's refresh wrote:
\* from its refresh to its draw the round holds the Mutex and no other round is
\* between its own lock() and drop(), so holders_number is as the refresh left
\* it when the draw reads it; and a round that assembles or submits its
\* transaction no longer holds the Mutex.
C31_DrawUsesOwnRefresh ==
    /\ \A t \in Tasks :
          /\ tasks[t].pc \in {"update_token_holders_number", "draw_winners"} <=> lock = t
          /\ tasks[t].pc = "draw_winners" => holders_number = tasks[t].wrote
    /\ \A t, u \in Tasks :
          (/\ tasks[t].pc \in {"update_token_holders_number", "draw_winners"}
           /\ tasks[u].pc \in {"update_token_holders_number", "draw_winners"}) => t = u

\* one round is about to draw from the count it wrote while the other waits for
\* the Mutex
C31_Witness ==
    /\ tasks[1].pc = "draw_winners"
    /\ tasks[2].pc = "lock"
    /\ lock = 1
    /\ holders_number = Len(listing)
    /\ holders_number > 0

----------------------------------------------------------------------------
(* Claim about the lookup of a drawn index, checked under SpecDraw         *)

\* C32: in a round whose refresh succeeded, every index drawn by draw_winners
\* addresses an existing record of the page it is looked up in: for an index
\* whose page was requested, index % limit is smaller than the number of records
\* the listing returns for page index / limit + 1, so the lookup never reads
\* past the end of token_accounts.
C32_DrawnIndexOnPage ==
    (/\ draw_ret.called
     /\ draw_ret.refreshed)
       => /\ draw_ret.ret # Panic("index out of bounds")
          /\ \A k \in 1..Len(draw_ret.drawn) :
                LET idx == draw_ret.drawn[k]
                    page == PageOfIdx(idx)
                IN (\E f \in 1..Len(draw_ret.fetched) : draw_ret.fetched[f] = page)
                      => idx % limit
                           < Len(GetTokenAccounts(ListingOf(draw_ret.listed), page).token_accounts)

====
